---- MODULE Spec2Model ----
(***************************************************************************)
(* Model of http-client-wrapper-axios: the tryCatch result wrapper and the *)
(* HttpClient facade over one axios instance.                              *)
(*                                                                         *)
(* JavaScript values are tagged records so that undefined, null, numbers,  *)
(* strings, plain mappings (compared by content) and error objects         *)
(* (compared by identity, stored in `heap`) stay distinct.                 *)
(***************************************************************************)
EXTENDS Integers, FiniteSets, Sequences, TLC

VARIABLES
    constructed,    \* the arguments the facade's constructor was called with
    axiosInstance,  \* the configuration the one transport instance was created with
    created,        \* number of axios.create calls made by the facade
    invocation,     \* per call: the verb method invoked and the caller's arguments
    sent,           \* per call: the record handed to axiosInstance.request
    transport,      \* per call: the promise returned by axiosInstance.request
    axiosResponse,  \* per call: the Result that `await tryCatch(...)` produced
    returned,       \* per call: the promise returned by the verb method
    heap,           \* per call: the failure object the transport created, if any
    callCount,      \* number of verb-method calls made on the facade
    requestCount    \* number of axiosInstance.request invocations

vars == <<constructed, axiosInstance, created, invocation, sent, transport, axiosResponse,
          returned, heap, callCount, requestCount>>

----------------------------------------------------------------------------
(* Bounds *)

MaxCalls == 2

Calls == 1..MaxCalls

----------------------------------------------------------------------------
(* JavaScript values *)

Undefined == [t |-> "undefined"]
Null == [t |-> "null"]
Num(n) == [t |-> "number", v |-> n]
Str(s) == [t |-> "string", v |-> s]
Obj(m) == [t |-> "object", v |-> m]
Ref(i) == [t |-> "ref", v |-> i]

None == [t |-> "none"]

EmptyMap == [k \in {} |-> ""]

IsNullish(v) == v = Undefined \/ v = Null

\* ToBoolean: undefined, null, 0 and "" are falsy, everything else is truthy
\* (an empty object {} included).
Truthy(v) ==
    /\ ~IsNullish(v)
    /\ v # Num(0)
    /\ v # Str("")

\* a ?? b without its fallback
NullishCoalesce_NoFallback(a, b) == a

\* a ?? b
NullishCoalesce(a, b) == IF IsNullish(a) THEN b ELSE a

\* a || b
LogicalOr(a, b) == IF Truthy(a) THEN a ELSE b

\* The fields of the object a value denotes; primitives have none of the
\* fields the facade reads.
Fields(v, h) ==
    IF v.t = "object" THEN v.v
    ELSE IF v.t = "ref" THEN h[v.v]
    ELSE EmptyMap

\* v.key on a non-nullish v: the field, or undefined when v has no such field.
GetProp(v, key, h) ==
    IF key \in DOMAIN Fields(v, h) THEN Fields(v, h)[key] ELSE Undefined

\* v?.key
OptionalGet(v, key, h) == IF IsNullish(v) THEN Undefined ELSE GetProp(v, key, h)

\* The TypeError a property read on undefined/null throws.
TypeError == [t |-> "error", v |-> "TypeError"]

----------------------------------------------------------------------------
(* Promises *)

NoPromise == [state |-> "none"]
Pending == [state |-> "pending"]
Fulfilled(v) == [state |-> "fulfilled", value |-> v]
Rejected(e) == [state |-> "rejected", reason |-> e]

----------------------------------------------------------------------------
(* Inputs *)

BaseUrls == {"https://api.example.com", "https://jsonplaceholder.typicode.com"}

\* options bags of the constructor; None stands for an omitted argument
OptionsBags ==
    { None,
      [timeout |-> 1000],
      [baseURL |-> "https://other.example.com"] }

Urls == {"/users", "/posts/1"}

HeadersArgs == {Undefined, Obj([Authorization |-> "Bearer token"])}

ParamsArgs == {Undefined, Obj([page |-> "1"])}

BodyArgs == {Undefined, Obj([name |-> "John"])}

JsonHeaders == [k \in {"content-type"} |-> "application/json"]

\* what the transport resolves with: {status, headers, data}
AxiosResponses ==
    { Obj([status |-> Num(s), headers |-> Obj(hd), data |-> d]) :
        s \in {200, 204},
        hd \in {EmptyMap, JsonHeaders},
        d \in {Undefined, Obj([id |-> "1"])} }

\* the nested response a failure object may carry
NestedResponses ==
    {Undefined} \cup
    { Obj([status |-> Num(s), headers |-> hd, data |-> Obj([error |-> "Server Error"])]) :
        s \in {404, 500},
        hd \in {Undefined, Obj(EmptyMap), Obj(JsonHeaders)} }

\* the failure objects the transport rejects with (AxiosError): own status
\* absent (undefined or null) or present, nested response absent or present
AxiosErrors ==
    { [name |-> "AxiosError", status |-> st, response |-> r] :
        st \in {Undefined, Null, Num(0), Num(404)},
        r \in NestedResponses }

\* rejection reasons that are not objects
PrimitiveReasons == {Undefined, Null, Str("timeout")}

----------------------------------------------------------------------------
(* tryCatch *)

\* tryCatch wrapping the caught failure in an error of its own
tryCatch_Wraps(promise) ==
    IF promise.state = "fulfilled"
    THEN [result |-> promise.value]
    ELSE [error |-> Str("Error: request failed")]

\* tryCatch returning both fields, the unused one undefined
tryCatch_BothFields(promise) ==
    IF promise.state = "fulfilled"
    THEN [result |-> promise.value, error |-> Undefined]
    ELSE [result |-> Undefined, error |-> promise.reason]

\* try { const data = await promise; return { result: data } }
\* catch (error) { return { error } }  -- applied to a settled promise
tryCatch(promise) ==
    IF promise.state = "fulfilled"
    THEN [result |-> promise.value]
    ELSE [error |-> promise.reason]

----------------------------------------------------------------------------
(* HttpClient *)

\* constructor: axios.create({ baseURL, ...options })
CreateConfig(baseURL, options) ==
    LET opts == IF options = None THEN EmptyMap ELSE options
    IN  [k \in {"baseURL"} \cup DOMAIN opts |->
            IF k \in DOMAIN opts THEN opts[k] ELSE baseURL]

\* the HttpRequest each verb method assembles
getRequest(url, params, headers) ==
    [method |-> "GET", url |-> url, params |-> params, headers |-> headers]

postRequest(url, body, headers) ==
    [method |-> "POST", url |-> url, body |-> body, headers |-> headers]

putRequest(url, body, headers) ==
    [method |-> "PUT", url |-> url, body |-> body, headers |-> headers]

patchRequest(url, body, headers) ==
    [method |-> "PATCH", url |-> url, body |-> body, headers |-> headers]

deleteRequest(url, headers) ==
    [method |-> "DELETE", url |-> url, headers |-> headers]

\* const { method, url, headers, params, body: data } = config;
\* a field the config does not have destructures to undefined
Destructure(config, key) ==
    IF key \in DOMAIN config THEN config[key] ELSE Undefined

\* the destructuring without the rename of body to data
RequestArgs_NoRename(config) ==
    [method  |-> Destructure(config, "method"),
     url     |-> Destructure(config, "url"),
     headers |-> Destructure(config, "headers"),
     params  |-> Destructure(config, "params"),
     data    |-> Destructure(config, "data")]

\* the argument of this.axiosInstance.request: { method, url, headers, params, data }
RequestArgs(config) ==
    [method  |-> Destructure(config, "method"),
     url     |-> Destructure(config, "url"),
     headers |-> Destructure(config, "headers"),
     params  |-> Destructure(config, "params"),
     data    |-> Destructure(config, "body")]

\* the failure branch also copying the nested response's body into data
FailureResponse_WithData(error, h) ==
    [status  |-> NullishCoalesce(GetProp(error, "status", h), Num(500)),
     headers |-> LogicalOr(OptionalGet(GetProp(error, "response", h), "headers", h),
                           Obj(EmptyMap)),
     data    |-> OptionalGet(GetProp(error, "response", h), "data", h),
     error   |-> error]

\* the failure branch reading headers off the failure object itself
FailureResponse_HeadersFromError(error, h) ==
    [status  |-> NullishCoalesce(GetProp(error, "status", h), Num(500)),
     headers |-> LogicalOr(GetProp(error, "headers", h), Obj(EmptyMap)),
     error   |-> error]

\* the failure branch falling back to the nested response's status
FailureResponse_NestedStatus(error, h) ==
    [status  |-> NullishCoalesce(GetProp(error, "status", h),
                    NullishCoalesce(OptionalGet(GetProp(error, "response", h), "status", h),
                                    Num(500))),
     headers |-> LogicalOr(OptionalGet(GetProp(error, "response", h), "headers", h),
                           Obj(EmptyMap)),
     error   |-> error]

\* the failure branch reading status off the nested response only
FailureResponse_StatusFromNested(error, h) ==
    [status  |-> NullishCoalesce(OptionalGet(GetProp(error, "response", h), "status", h),
                                 Num(500)),
     headers |-> LogicalOr(OptionalGet(GetProp(error, "response", h), "headers", h),
                           Obj(EmptyMap)),
     error   |-> error]

\* the failure branch without the `|| {}` fallback for headers
FailureResponse_NoHeadersFallback(error, h) ==
    [status  |-> NullishCoalesce(GetProp(error, "status", h), Num(500)),
     headers |-> OptionalGet(GetProp(error, "response", h), "headers", h),
     error   |-> error]

\* the failure branch with a fallback status that depends on how many calls
\* the facade has served
FailureResponse_CountsCalls(error, h) ==
    [status  |-> NullishCoalesce(GetProp(error, "status", h),
                                 IF callCount > 1 THEN Num(503) ELSE Num(500)),
     headers |-> LogicalOr(OptionalGet(GetProp(error, "response", h), "headers", h),
                           Obj(EmptyMap)),
     error   |-> error]

\* the response built on the failure branch
FailureResponse(error, h) ==
    [status  |-> NullishCoalesce(GetProp(error, "status", h), Num(500)),
     headers |-> LogicalOr(OptionalGet(GetProp(error, "response", h), "headers", h),
                           Obj(EmptyMap)),
     error   |-> error]

\* the success branch spelling out an undefined error field
SuccessResponse_ErrorField(result, h) ==
    [status  |-> GetProp(result, "status", h),
     headers |-> GetProp(result, "headers", h),
     data    |-> GetProp(result, "data", h),
     error   |-> Undefined]

\* the response built on the success branch
SuccessResponse(result, h) ==
    [status  |-> GetProp(result, "status", h),
     headers |-> GetProp(result, "headers", h),
     data    |-> GetProp(result, "data", h)]

\* request(), from the resumption of `await tryCatch(...)` to its return or
\* throw: the settlement of the promise the verb method returned
MapResult(res, h) ==
    LET error == IF "error" \in DOMAIN res THEN res.error ELSE Undefined
        result == IF "result" \in DOMAIN res THEN res.result ELSE Undefined
    IN  IF Truthy(error) THEN Fulfilled(FailureResponse(error, h))
        ELSE IF IsNullish(result) THEN Rejected(TypeError)
        ELSE Fulfilled(SuccessResponse(result, h))

----------------------------------------------------------------------------
(* State machine *)

Init ==
    /\ constructed \in [baseURL : BaseUrls, options : OptionsBags]
    /\ axiosInstance = CreateConfig(constructed.baseURL, constructed.options)
    /\ created = 1
    /\ invocation = [c \in Calls |-> None]
    /\ sent = [c \in Calls |-> None]
    /\ transport = [c \in Calls |-> NoPromise]
    /\ axiosResponse = [c \in Calls |-> None]
    /\ returned = [c \in Calls |-> NoPromise]
    /\ heap = [c \in Calls |-> None]
    /\ callCount = 0
    /\ requestCount = 0

\* a call slot is free when no call was made through it, or the call's promise
\* has settled and the caller is done with it
Free(c) == returned[c].state # "pending"

\* request creating a transport instance of its own on every call
request_CreatesInstance(c, config) ==
    /\ Free(c)
    /\ callCount < MaxCalls
    /\ sent' = [sent EXCEPT ![c] = RequestArgs(config)]
    /\ transport' = [transport EXCEPT ![c] = Pending]
    /\ axiosResponse' = [axiosResponse EXCEPT ![c] = None]
    /\ returned' = [returned EXCEPT ![c] = Pending]
    /\ heap' = [heap EXCEPT ![c] = None]
    /\ callCount' = callCount + 1
    /\ requestCount' = requestCount + 1
    /\ created' = created + 1
    /\ axiosInstance' = CreateConfig(constructed.baseURL, None)
    /\ UNCHANGED constructed

\* request(config) up to its first suspension: the transport is invoked once,
\* tryCatch awaits its promise and request awaits tryCatch
request(c, config) ==
    /\ Free(c)
    /\ callCount < MaxCalls
    /\ sent' = [sent EXCEPT ![c] = RequestArgs(config)]
    /\ transport' = [transport EXCEPT ![c] = Pending]
    /\ axiosResponse' = [axiosResponse EXCEPT ![c] = None]
    /\ returned' = [returned EXCEPT ![c] = Pending]
    /\ heap' = [heap EXCEPT ![c] = None]
    /\ callCount' = callCount + 1
    /\ requestCount' = requestCount + 1
    /\ UNCHANGED <<constructed, axiosInstance, created>>

get(c, url, params, headers) ==
    /\ invocation' = [invocation EXCEPT ![c] = [verb |-> "get", url |-> url, params |-> params, headers |-> headers]]
    /\ request(c, getRequest(url, params, headers))

post(c, url, body, headers) ==
    /\ invocation' = [invocation EXCEPT ![c] = [verb |-> "post", url |-> url, body |-> body, headers |-> headers]]
    /\ request(c, postRequest(url, body, headers))

put(c, url, body, headers) ==
    /\ invocation' = [invocation EXCEPT ![c] = [verb |-> "put", url |-> url, body |-> body, headers |-> headers]]
    /\ request(c, putRequest(url, body, headers))

patch(c, url, body, headers) ==
    /\ invocation' = [invocation EXCEPT ![c] = [verb |-> "patch", url |-> url, body |-> body, headers |-> headers]]
    /\ request(c, patchRequest(url, body, headers))

delete(c, url, headers) ==
    /\ invocation' = [invocation EXCEPT ![c] = [verb |-> "delete", url |-> url, headers |-> headers]]
    /\ request(c, deleteRequest(url, headers))

\* the transport resolves the call's promise with a response
TransportResolve(c, response) ==
    /\ transport[c] = Pending
    /\ transport' = [transport EXCEPT ![c] = Fulfilled(response)]
    /\ UNCHANGED <<constructed, axiosInstance, created, invocation, sent, axiosResponse,
                   returned, heap, callCount, requestCount>>

\* the transport rejects the call's promise with a failure object it created
TransportRejectError(c, error) ==
    /\ transport[c] = Pending
    /\ heap' = [heap EXCEPT ![c] = error]
    /\ transport' = [transport EXCEPT ![c] = Rejected(Ref(c))]
    /\ UNCHANGED <<constructed, axiosInstance, created, invocation, sent, axiosResponse,
                   returned, callCount, requestCount>>

\* the transport rejects the call's promise with a value that is no object
TransportRejectValue(c, reason) ==
    /\ transport[c] = Pending
    /\ transport' = [transport EXCEPT ![c] = Rejected(reason)]
    /\ UNCHANGED <<constructed, axiosInstance, created, invocation, sent, axiosResponse,
                   returned, heap, callCount, requestCount>>

\* tryCatch resumes after `await promise` and returns its Result
tryCatchResume(c) ==
    /\ transport[c].state \in {"fulfilled", "rejected"}
    /\ axiosResponse[c] = None
    /\ axiosResponse' = [axiosResponse EXCEPT ![c] = tryCatch(transport[c])]
    /\ UNCHANGED <<constructed, axiosInstance, created, invocation, sent, transport,
                   returned, heap, callCount, requestCount>>

\* request issuing the transport request again when it was rejected
requestResume_Retries(c) ==
    /\ axiosResponse[c] # None
    /\ returned[c] = Pending
    /\ IF "error" \in DOMAIN axiosResponse[c]
       THEN /\ transport' = [transport EXCEPT ![c] = Pending]
            /\ axiosResponse' = [axiosResponse EXCEPT ![c] = None]
            /\ heap' = [heap EXCEPT ![c] = None]
            /\ requestCount' = requestCount + 1
            /\ UNCHANGED returned
       ELSE /\ returned' = [returned EXCEPT ![c] = MapResult(axiosResponse[c], heap)]
            /\ UNCHANGED <<transport, axiosResponse, heap, requestCount>>
    /\ UNCHANGED <<constructed, axiosInstance, created, invocation, sent, callCount>>

\* request keeping the Result in a field of the facade that every call shares
requestResume_SharedResult(c) ==
    /\ axiosResponse[c] # None
    /\ returned[c] = Pending
    /\ \E d \in Calls :
          /\ axiosResponse[d] # None
          /\ returned' = [returned EXCEPT ![c] = MapResult(axiosResponse[d], heap)]
    /\ UNCHANGED <<constructed, axiosInstance, created, invocation, sent, transport,
                   axiosResponse, heap, callCount, requestCount>>

\* request resumes after `await tryCatch(...)`, maps the Result and settles
\* the promise the verb method returned
requestResume(c) ==
    /\ axiosResponse[c] # None
    /\ returned[c] = Pending
    /\ returned' = [returned EXCEPT ![c] = MapResult(axiosResponse[c], heap)]
    /\ UNCHANGED <<constructed, axiosInstance, created, invocation, sent, transport,
                   axiosResponse, heap, callCount, requestCount>>

\* one facade, its calls made one after the other through one slot
Next ==
    \/ \E url \in Urls, params \in ParamsArgs, headers \in HeadersArgs :
          get(1, url, params, headers)
    \/ \E url \in Urls, body \in BodyArgs, headers \in HeadersArgs :
          post(1, url, body, headers)
    \/ \E url \in Urls, body \in BodyArgs, headers \in HeadersArgs :
          put(1, url, body, headers)
    \/ \E url \in Urls, body \in BodyArgs, headers \in HeadersArgs :
          patch(1, url, body, headers)
    \/ \E url \in Urls, headers \in HeadersArgs :
          delete(1, url, headers)
    \/ \E response \in AxiosResponses : TransportResolve(1, response)
    \/ \E error \in AxiosErrors : TransportRejectError(1, error)
    \/ \E reason \in PrimitiveReasons : TransportRejectValue(1, reason)
    \/ tryCatchResume(1)
    \/ requestResume(1)

Spec == Init /\ [][Next]_vars

\* the continuations of a settled promise are queued as microtasks and run:
\* tryCatch and request resume once what they await has settled
SpecFair ==
    /\ Spec
    /\ WF_vars(tryCatchResume(1))
    /\ WF_vars(requestResume(1))

----------------------------------------------------------------------------
(* Concurrent calls on one facade *)

\* the outcomes the transport gives concurrent calls: a response with a body,
\* one without, a failure with a nested response, one without, and undefined
ConcResponses ==
    { Obj([status |-> Num(200), headers |-> Obj(JsonHeaders), data |-> Obj([id |-> "1"])]),
      Obj([status |-> Num(204), headers |-> Obj(EmptyMap), data |-> Undefined]) }

ConcErrors ==
    { [name |-> "AxiosError", status |-> Num(404),
       response |-> Obj([status |-> Num(404), headers |-> Obj(JsonHeaders),
                         data |-> Obj([error |-> "Server Error"])])],
      [name |-> "AxiosError", status |-> Undefined, response |-> Undefined] }

ConcReasons == {Undefined}

\* one facade constructed without options
InitConc ==
    /\ Init
    /\ constructed = [baseURL |-> "https://api.example.com", options |-> None]

\* any number of calls in flight, their steps interleaved in any order
NextConc ==
    \E c \in Calls :
        \/ get(c, "/users", Undefined, Undefined)
        \/ post(c, "/users", Undefined, Undefined)
        \/ put(c, "/users", Undefined, Undefined)
        \/ patch(c, "/users", Undefined, Undefined)
        \/ delete(c, "/users", Undefined)
        \/ \E response \in ConcResponses : TransportResolve(c, response)
        \/ \E error \in ConcErrors : TransportRejectError(c, error)
        \/ \E reason \in ConcReasons : TransportRejectValue(c, reason)
        \/ tryCatchResume(c)
        \/ requestResume(c)

SpecConc == InitConc /\ [][NextConc]_vars

----------------------------------------------------------------------------
(* Vocabulary of the properties *)

\* the call's transport promise resolved / rejected, and the promise the verb
\* method returned has settled
Succeeded(c) == transport[c].state = "fulfilled" /\ returned[c].state \in {"fulfilled", "rejected"}

Failed(c) == transport[c].state = "rejected" /\ returned[c].state \in {"fulfilled", "rejected"}

\* the call failed and the facade returned an HttpResponse for it
FailedWithResponse(c) == Failed(c) /\ returned[c].state = "fulfilled"

\* the failure object's own status and nested response, as the transport set them
OwnStatus(c) == GetProp(transport[c].reason, "status", heap)

NestedResponse(c) == GetProp(transport[c].reason, "response", heap)

HasNestedResponse(c) == ~IsNullish(NestedResponse(c))

----------------------------------------------------------------------------
(* C1: for every verb method and every transport outcome, a rejection with a *)
(* falsy value included, the promise the facade returns resolves with an     *)
(* HttpResponse and never rejects.                                           *)

FacadeNeverRejects ==
    \A c \in Calls : returned[c].state # "rejected"

----------------------------------------------------------------------------
(* C2: tryCatch(p) never rejects: when p resolves with v the Result is       *)
(* { result: v }, when p rejects with e the Result is { error: e }, the same *)
(* value, uninterpreted.                                                     *)

TryCatchCapturesOutcome ==
    \A c \in Calls :
        axiosResponse[c] # None =>
            /\ transport[c].state = "fulfilled" =>
                  /\ "result" \in DOMAIN axiosResponse[c]
                  /\ axiosResponse[c].result = transport[c].value
            /\ transport[c].state = "rejected" =>
                  /\ "error" \in DOMAIN axiosResponse[c]
                  /\ axiosResponse[c].error = transport[c].reason

TryCatchCapturedFailure ==
    /\ transport[1] = Rejected(Ref(1))
    /\ axiosResponse[1] # None
    /\ axiosResponse[1].error = Ref(1)
    /\ heap[1].status = Num(404)

----------------------------------------------------------------------------
(* C3: when the transport resolves with {status, headers, data}, the         *)
(* HttpResponse has no error field and its status, headers and data are the  *)
(* transport's, data = undefined and headers = {} included.                  *)

SuccessIsVerbatim ==
    \A c \in Calls :
        Succeeded(c) =>
            /\ returned[c].state = "fulfilled"
            /\ "error" \notin DOMAIN returned[c].value
            /\ returned[c].value.status = transport[c].value.v.status
            /\ returned[c].value.headers = transport[c].value.v.headers
            /\ returned[c].value.data = transport[c].value.v.data

SuccessWithEmptyBody ==
    /\ Succeeded(1)
    /\ transport[1].value.v.data = Undefined
    /\ transport[1].value.v.headers = Obj(EmptyMap)
    /\ returned[1].state = "fulfilled"
    /\ returned[1].value.status = Num(204)

----------------------------------------------------------------------------
(* C4: when the transport rejects, the HttpResponse has no data field and    *)
(* its error is the very failure object the transport rejected with; no step *)
(* of the facade changes a field of that object.                             *)

FailureIsPassedThrough ==
    [][\A c \in Calls :
          /\ (transport[c].state = "rejected" /\ axiosResponse[c] = None
                /\ axiosResponse'[c] # None)
             => heap'[c] = heap[c]
          /\ (transport[c].state = "rejected" /\ returned[c].state = "pending"
                /\ returned'[c].state = "fulfilled")
             => /\ "data" \notin DOMAIN returned'[c].value
                /\ returned'[c].value.error = transport[c].reason
                /\ heap'[c] = heap[c]]_vars

FailurePassedThrough ==
    /\ FailedWithResponse(1)
    /\ transport[1].reason = Ref(1)
    /\ returned[1].value.error = Ref(1)
    /\ HasNestedResponse(1)

----------------------------------------------------------------------------
(* C5, as claimed: for every failed call whose failure object carries a      *)
(* nested response, status is the nested response's status and headers are   *)
(* the nested response's headers.                                            *)

NestedResponseDecidesStatusAndHeaders ==
    \A c \in Calls :
        (FailedWithResponse(c) /\ HasNestedResponse(c)) =>
            /\ returned[c].value.status = GetProp(NestedResponse(c), "status", heap)
            /\ returned[c].value.headers = GetProp(NestedResponse(c), "headers", heap)

(* C5, amended: for every failed call whose failure object carries a nested  *)
(* response, headers are the nested response's headers (the empty mapping    *)
(* when it has none) and status is the failure object's own status when it   *)
(* has one, else 500; the nested response's status is not consulted.         *)

NestedResponseDecidesHeadersOnly ==
    \A c \in Calls :
        (FailedWithResponse(c) /\ HasNestedResponse(c)) =>
            /\ returned[c].value.headers =
                  (IF GetProp(NestedResponse(c), "headers", heap) = Undefined
                   THEN Obj(EmptyMap)
                   ELSE GetProp(NestedResponse(c), "headers", heap))
            /\ returned[c].value.status =
                  (IF IsNullish(OwnStatus(c)) THEN Num(500) ELSE OwnStatus(c))

NestedStatusIgnored ==
    /\ FailedWithResponse(1)
    /\ HasNestedResponse(1)
    /\ OwnStatus(1) = Undefined
    /\ GetProp(NestedResponse(1), "status", heap) = Num(404)
    /\ GetProp(NestedResponse(1), "headers", heap) = Obj(JsonHeaders)
    /\ returned[1].value.status = Num(500)
    /\ returned[1].value.headers = Obj(JsonHeaders)

----------------------------------------------------------------------------
(* C6, as claimed: on the failure branch status follows a three-step         *)
(* precedence: the failure object's own status if present, otherwise the     *)
(* nested response's status if a nested response is present, otherwise 500.  *)

StatusThreeStepPrecedence ==
    \A c \in Calls :
        FailedWithResponse(c) =>
            returned[c].value.status =
                (IF ~IsNullish(OwnStatus(c)) THEN OwnStatus(c)
                 ELSE IF HasNestedResponse(c)
                      THEN GetProp(NestedResponse(c), "status", heap)
                      ELSE Num(500))

(* C6, amended: on the failure branch status follows a two-step precedence:  *)
(* the failure object's own status if present (neither undefined nor null),  *)
(* otherwise 500, whether or not a nested response is present.               *)

StatusTwoStepPrecedence ==
    \A c \in Calls :
        FailedWithResponse(c) =>
            \/ /\ ~IsNullish(OwnStatus(c))
               /\ returned[c].value.status = OwnStatus(c)
            \/ /\ IsNullish(OwnStatus(c))
               /\ returned[c].value.status = Num(500)

OwnStatusWins ==
    /\ FailedWithResponse(1)
    /\ OwnStatus(1) = Num(404)
    /\ GetProp(NestedResponse(1), "status", heap) = Num(500)
    /\ returned[1].value.status = Num(404)

----------------------------------------------------------------------------
(* C7: for every failed call whose failure object has no own status          *)
(* (undefined), status is 500 even when the failure carries a nested         *)
(* response with a status of its own, while headers are still taken from     *)
(* that nested response.                                                     *)

UndefinedOwnStatusGives500 ==
    \A c \in Calls :
        (FailedWithResponse(c) /\ OwnStatus(c) = Undefined) =>
            /\ returned[c].value.status = Num(500)
            /\ (HasNestedResponse(c)
                  /\ GetProp(NestedResponse(c), "headers", heap) # Undefined)
               => returned[c].value.headers = GetProp(NestedResponse(c), "headers", heap)

UndefinedOwnStatusWithNested404 ==
    /\ FailedWithResponse(1)
    /\ invocation[1].verb = "post"
    /\ OwnStatus(1) = Undefined
    /\ GetProp(NestedResponse(1), "status", heap) = Num(404)
    /\ returned[1].value.status = Num(500)
    /\ returned[1].value.headers = Obj(JsonHeaders)

----------------------------------------------------------------------------
(* C8: for every failed call whose failure object has neither an own status  *)
(* nor a nested response, status is 500 and headers is the empty mapping.    *)

NoStatusNoResponseGivesFallback ==
    \A c \in Calls :
        (FailedWithResponse(c) /\ IsNullish(OwnStatus(c)) /\ ~HasNestedResponse(c)) =>
            /\ returned[c].value.status = Num(500)
            /\ returned[c].value.headers = Obj(EmptyMap)

BareFailureMapped ==
    /\ FailedWithResponse(1)
    /\ transport[1].reason = Ref(1)
    /\ heap[1].status = Undefined
    /\ heap[1].response = Undefined
    /\ returned[1].value.status = Num(500)

----------------------------------------------------------------------------
(* C9: each verb method hands the transport exactly {method, url, headers,   *)
(* params, data} with its own verb and the caller's url and headers: get     *)
(* passes the caller's params and no data; delete passes neither; post, put  *)
(* and patch pass the caller's body as data and no params. An omitted        *)
(* argument is passed as undefined, never as an empty mapping.               *)

VerbsPassRequestRecord ==
    \A c \in Calls :
        invocation[c] # None =>
            LET i == invocation[c] IN
            /\ i.verb = "get" =>
                  sent[c] = [method |-> "GET", url |-> i.url, headers |-> i.headers,
                             params |-> i.params, data |-> Undefined]
            /\ i.verb = "delete" =>
                  sent[c] = [method |-> "DELETE", url |-> i.url, headers |-> i.headers,
                             params |-> Undefined, data |-> Undefined]
            /\ i.verb = "post" =>
                  sent[c] = [method |-> "POST", url |-> i.url, headers |-> i.headers,
                             params |-> Undefined, data |-> i.body]
            /\ i.verb = "put" =>
                  sent[c] = [method |-> "PUT", url |-> i.url, headers |-> i.headers,
                             params |-> Undefined, data |-> i.body]
            /\ i.verb = "patch" =>
                  sent[c] = [method |-> "PATCH", url |-> i.url, headers |-> i.headers,
                             params |-> Undefined, data |-> i.body]

PatchSentWithBodyOnly ==
    /\ invocation[1] # None
    /\ invocation[1].verb = "patch"
    /\ invocation[1].body = Obj([name |-> "John"])
    /\ invocation[1].headers = Undefined
    /\ transport[1] = Pending
    /\ sent[1].data = Obj([name |-> "John"])
    /\ sent[1].headers = Undefined

----------------------------------------------------------------------------
(* C10: every Result tryCatch produces has exactly one of the fields result  *)
(* and error, never both and never neither, also when the promise resolved   *)
(* with undefined or rejected with undefined.                                *)

ResultHasExactlyOneField ==
    \A c \in Calls :
        axiosResponse[c] # None =>
            Cardinality(DOMAIN axiosResponse[c] \cap {"result", "error"}) = 1

ResultOfUndefinedRejection ==
    /\ transport[1] = Rejected(Undefined)
    /\ axiosResponse[1] # None
    /\ DOMAIN axiosResponse[1] = {"error"}

----------------------------------------------------------------------------
(* C11: with any number of calls in flight on one facade and any order of    *)
(* settlement, each call's HttpResponse is decided by that call's own        *)
(* transport outcome alone: no call returns another call's status, headers,  *)
(* data or error, and no call's completion waits on another call.            *)

EachCallMapsItsOwnOutcome ==
    \A c \in Calls :
        /\ Succeeded(c) =>
              /\ returned[c].state = "fulfilled"
              /\ returned[c].value.status = transport[c].value.v.status
              /\ returned[c].value.headers = transport[c].value.v.headers
              /\ returned[c].value.data = transport[c].value.v.data
        /\ FailedWithResponse(c) =>
              /\ returned[c].value.error = transport[c].reason
              /\ returned[c].value.status =
                    (IF IsNullish(OwnStatus(c)) THEN Num(500) ELSE OwnStatus(c))
              /\ returned[c].value.headers =
                    (IF HasNestedResponse(c)
                        /\ GetProp(NestedResponse(c), "headers", heap) # Undefined
                     THEN GetProp(NestedResponse(c), "headers", heap)
                     ELSE Obj(EmptyMap))
        /\ (transport[c].state \in {"fulfilled", "rejected"} /\ axiosResponse[c] = None)
              => ENABLED tryCatchResume(c)
        /\ (axiosResponse[c] # None /\ returned[c] = Pending)
              => ENABLED requestResume(c)

SecondCallDoneWhileFirstPending ==
    /\ invocation[1] # None
    /\ invocation[2] # None
    /\ invocation[1].verb = "get"
    /\ invocation[2].verb = "post"
    /\ transport[1] = Pending
    /\ returned[1] = Pending
    /\ FailedWithResponse(2)
    /\ returned[2].value.error = Ref(2)
    /\ returned[2].value.status = Num(404)

----------------------------------------------------------------------------
(* C12: a call's HttpResponse is produced only after that call's transport   *)
(* operation has settled, and whenever the transport operation settles,      *)
(* resolving or rejecting, the facade call eventually resolves.              *)

ResponseFollowsSettlement ==
    /\ [](\A c \in Calls :
            returned[c].state \in {"fulfilled", "rejected"}
               => transport[c].state \in {"fulfilled", "rejected"})
    /\ \A c \in Calls :
          (transport[c].state \in {"fulfilled", "rejected"})
             ~> (returned[c].state = "fulfilled")

(* C12 as a property of the state a call ends in: no response before the    *)
(* transport has settled, and once the transport has settled and the call    *)
(* has no step left to take, its promise has resolved.                       *)

CallResolvedOnceSettled ==
    \A c \in Calls :
        /\ returned[c].state \in {"fulfilled", "rejected"}
              => transport[c].state \in {"fulfilled", "rejected"}
        /\ (/\ transport[c].state \in {"fulfilled", "rejected"}
            /\ ~ENABLED tryCatchResume(c)
            /\ ~ENABLED requestResume(c))
              => returned[c].state = "fulfilled"

(* C12 with "resolves" weakened to "settles": the call's promise is          *)
(* eventually fulfilled or rejected.                                         *)

SettlementFollowsSettlement ==
    /\ [](\A c \in Calls :
            returned[c].state \in {"fulfilled", "rejected"}
               => transport[c].state \in {"fulfilled", "rejected"})
    /\ \A c \in Calls :
          (transport[c].state \in {"fulfilled", "rejected"})
             ~> (returned[c].state \in {"fulfilled", "rejected"})

----------------------------------------------------------------------------
(* C13: the facade creates exactly one transport instance, at construction;  *)
(* after any sequence of calls, successful or failed, sequential or          *)
(* concurrent, it still holds that instance and no call has created,         *)
(* replaced or reconfigured a transport.                                     *)

OneTransportInstance ==
    /\ created = 1
    /\ axiosInstance = CreateConfig(constructed.baseURL, constructed.options)

InstanceKeptAcrossCalls ==
    /\ created = 1
    /\ callCount = 2
    /\ Succeeded(1)
    /\ FailedWithResponse(2)

----------------------------------------------------------------------------
(* C14: mapping the same transport outcome twice yields identical            *)
(* HttpResponse values: two calls whose transport outcomes are equal (for    *)
(* failure objects: equal field by field) get equal responses, however many  *)
(* calls the facade served before.                                           *)

\* a call's transport outcome and its response, a failure object replaced by
\* its fields
OutcomeOf(c) ==
    IF transport[c].state = "rejected"
    THEN IF transport[c].reason.t = "ref"
         THEN [state |-> "rejected", object |-> heap[transport[c].reason.v]]
         ELSE transport[c]
    ELSE transport[c]

ResponseOf(c) ==
    IF returned[c].state = "fulfilled"
    THEN IF "error" \in DOMAIN returned[c].value
         THEN IF returned[c].value.error.t = "ref"
              THEN [returned[c].value EXCEPT !.error = heap[returned[c].value.error.v]]
              ELSE returned[c].value
         ELSE returned[c].value
    ELSE returned[c]

SameOutcomeSameResponse ==
    \A c, d \in Calls :
        (/\ returned[c].state \in {"fulfilled", "rejected"}
         /\ returned[d].state \in {"fulfilled", "rejected"}
         /\ OutcomeOf(c) = OutcomeOf(d))
        => ResponseOf(c) = ResponseOf(d)

SameFailureMappedTwice ==
    /\ callCount = 2
    /\ FailedWithResponse(1)
    /\ FailedWithResponse(2)
    /\ transport[1].reason = Ref(1)
    /\ transport[2].reason = Ref(2)
    /\ heap[1] = heap[2]
    /\ heap[1].status = Undefined
    /\ returned[1].value.status = Num(500)
    /\ returned[2].value.status = Num(500)

----------------------------------------------------------------------------
(* C15: every facade call issues exactly one transport request, whatever its *)
(* outcome: a rejected transport operation is not issued again, and the      *)
(* number of transport requests equals the number of facade calls made.      *)

OneRequestPerCall ==
    requestCount = callCount

TwoCallsTwoRequests ==
    /\ callCount = 2
    /\ requestCount = 2
    /\ FailedWithResponse(1)
    /\ Failed(2)

----------------------------------------------------------------------------
(* C16: in every HttpResponse the facade returns, on either branch, status   *)
(* is a defined number and headers is a defined mapping, on the failure      *)
(* branch for every combination of own status, nested response and nested    *)
(* headers present or absent.                                                *)

StatusAndHeadersDefined ==
    \A c \in Calls :
        returned[c].state = "fulfilled" =>
            /\ returned[c].value.status.t = "number"
            /\ returned[c].value.headers.t = "object"

NestedResponseWithoutHeaders ==
    /\ FailedWithResponse(1)
    /\ OwnStatus(1) = Null
    /\ HasNestedResponse(1)
    /\ GetProp(NestedResponse(1), "headers", heap) = Undefined
    /\ returned[1].value.status = Num(500)
    /\ returned[1].value.headers = Obj(EmptyMap)

----------------------------------------------------------------------------
(* C17: for every baseUrl and every options bag given to the constructor, an *)
(* options bag with a baseURL field of its own included, the transport       *)
(* instance is created with base URL equal to the baseUrl argument, together *)
(* with the fields of the options bag.                                       *)

CreatedWithBaseUrlArgument ==
    /\ axiosInstance.baseURL = constructed.baseURL
    /\ IF constructed.options = None
       THEN DOMAIN axiosInstance = {"baseURL"}
       ELSE /\ DOMAIN axiosInstance = {"baseURL"} \cup DOMAIN constructed.options
            /\ \A k \in DOMAIN constructed.options \ {"baseURL"} :
                  axiosInstance[k] = constructed.options[k]

====
